---- MODULE Spec2Model ----
(***************************************************************************)
(* A model of petgraph's graph algorithms (src/src/algo.rs) and traversal  *)
(* engines (src/src/visit.rs).                                             *)
(*                                                                         *)
(* A graph is a record [n, edges, ty]: node indices are 0..n-1, edges is   *)
(* the sequence of edges in insertion order, each a record                 *)
(* [source, target, weight], and ty is the edge type, "Directed" or        *)
(* "Undirected".  Parallel edges and self-loops are allowed, as in Graph.  *)
(***************************************************************************)
EXTENDS Integers, Sequences, FiniteSets, TLC

\* Bounds of the model.
MaxNodes == 3
MaxEdges == 3
MaxWeight == 2
MaxMoves == 2

VARIABLES
    g,          \* the caller's graph
    op,         \* the operation applied last ("init" before any)
    sccs,       \* result of scc
    finish,     \* the finish order of scc's first phase
    order,      \* result of toposort
    cyclic,     \* result of is_cyclic_directed / is_cyclic_undirected
    count,      \* result of connected_components
    mst,        \* result of min_spanning_tree
    dfs,        \* a Dfs engine: [stack, discovered]
    bfs,        \* a Bfs engine: [stack, discovered]
    engine,     \* which engine the caller holds: "none", "dfs" or "bfs"
    start,      \* the start node the engine was constructed with (None: empty)
    ret,        \* the value returned by the last next (None: absent)
    returned,   \* history: the nodes returned by next, in order
    prev,       \* history: the visited-set before the last engine call
    moved,      \* history: the move_to calls, each [node, seen]: its argument
                \* and whether that node was visited before the call
    afterAbsent, \* history: the last next was called on an engine whose
                \* previous call, a next, had returned absent
    topo,       \* a Topo engine: [tovisit, ordered]
    vm,         \* a visited-set on its own: [kind, map, hist], hist being the
                \* history of the arguments of visit since creation or reset
    call,       \* the last query made and what it answered
    lastAdded   \* history: the edge <<source, target>> the caller added last,
                \* <<>> before any and once an edge was removed

vars == <<g, op, sccs, finish, order, cyclic, count, mst,
          dfs, bfs, engine, start, ret, returned, prev, moved, afterAbsent,
          topo, vm, call, lastAdded>>

None == -1

Incoming == "Incoming"
Outgoing == "Outgoing"

opposite(d) == IF d = Outgoing THEN Incoming ELSE Outgoing

Last(s) == s[Len(s)]
Front(s) == SubSeq(s, 1, Len(s) - 1)
Range(s) == {s[i] : i \in 1..Len(s)}
NoDup(s) == \A i, j \in 1..Len(s) : s[i] = s[j] => i = j

(***************************************************************************)
(* The graph collaborator (Graph<N, E, Ty>).                               *)
(***************************************************************************)
node_count(gr) == gr.n

edge_count(gr) == Len(gr.edges)

\* node indices in enumeration order
node_identifiers(gr) == [i \in 1..gr.n |-> i - 1]

\* the walk of a node's edge list: the edge added last comes first
RECURSIVE EdgeWalk(_, _, _, _)
EdgeWalk(edges, i, a, d) ==
    IF i = 0 THEN <<>>
    ELSE LET e == edges[i]
             hit == IF d = Outgoing /\ e.source = a THEN <<e.target>>
                    ELSE IF d = Incoming /\ e.target = a THEN <<e.source>>
                    ELSE <<>>
         IN  hit \o EdgeWalk(edges, i - 1, a, d)

is_directed(gr) == gr.ty = "Directed"

\* a directed graph walks the edge list of direction d; an undirected graph
\* walks the outgoing list and then the incoming list, where it skips the
\* self-loops (they were met in the outgoing list)
Graph_neighbors_directed(gr, a, d) ==
    IF is_directed(gr) THEN EdgeWalk(gr.edges, Len(gr.edges), a, d)
    ELSE EdgeWalk(gr.edges, Len(gr.edges), a, Outgoing)
             \o SelectSeq(EdgeWalk(gr.edges, Len(gr.edges), a, Incoming),
                          LAMBDA b : b # a)

\* the edges at a in direction d, self-loops included
HasEdgeAt(gr, a, d) == EdgeWalk(gr.edges, Len(gr.edges), a, d) # <<>>

\* nodes without an edge in direction d (without any edge, in an undirected
\* graph), in index order
Graph_externals(gr, d) ==
    SelectSeq(node_identifiers(gr),
              LAMBDA a : /\ ~HasEdgeAt(gr, a, d)
                         /\ (is_directed(gr) \/ ~HasEdgeAt(gr, a, opposite(d))))

Without(edges, i) == SubSeq(edges, 1, i - 1) \o SubSeq(edges, i + 1, Len(edges))

Graph_add_edge(gr, a, b) ==
    [gr EXCEPT !.edges = Append(@, [source |-> a, target |-> b, weight |-> 1])]

\* the other edges keep their places in the edge lists of their endpoints
Graph_remove_edge(gr, i) == [gr EXCEPT !.edges = Without(@, i)]

(***************************************************************************)
(* Graph references and the Reversed adapter.  A view is the graph under   *)
(* `wraps` nested Reversed wrappers.                                       *)
(***************************************************************************)
Ref(gr) == [graph |-> gr, wraps |-> 0]

Reversed(v) == [v EXCEPT !.wraps = @ + 1]

\* as neighbors_directed, without flipping the direction
RECURSIVE neighbors_directed_NoFlip(_, _, _)
neighbors_directed_NoFlip(v, a, d) ==
    IF v.wraps = 0 THEN Graph_neighbors_directed(v.graph, a, d)
    ELSE neighbors_directed_NoFlip([v EXCEPT !.wraps = @ - 1], a, d)

RECURSIVE neighbors_directed(_, _, _)
neighbors_directed(v, a, d) ==
    IF v.wraps = 0 THEN Graph_neighbors_directed(v.graph, a, d)
    ELSE neighbors_directed([v EXCEPT !.wraps = @ - 1], a, opposite(d))

neighbors(v, a) ==
    IF v.wraps = 0 THEN Graph_neighbors_directed(v.graph, a, Outgoing)
    ELSE neighbors_directed([v EXCEPT !.wraps = @ - 1], a, Incoming)

RECURSIVE externals(_, _)
externals(v, d) ==
    IF v.wraps = 0 THEN Graph_externals(v.graph, d)
    ELSE externals([v EXCEPT !.wraps = @ - 1], opposite(d))

(***************************************************************************)
(* The visited-set: the set of indices whose bit is set.                   *)
(***************************************************************************)
visit_map(gr) == {}

reset_map(gr, map) == {}

is_visited(map, x) == x \in map

\* as visit, returning whether x was present
visit_Present(map, x) == [map |-> map \cup {x}, fresh |-> x \in map]

\* visit returns the map after the call and whether x was not present before
visit(map, x) == [map |-> map \cup {x}, fresh |-> ~(x \in map)]

\* the hash-backed visited-set: insert tells whether the value was new
HashSet_visit(map, x) == [map |-> map \cup {x}, fresh |-> x \notin map]

HashSet_is_visited(map, x) == x \in map

(***************************************************************************)
(* Dfs and Bfs.  The top of the Dfs stack is the last element; the front   *)
(* of the Bfs queue is the first element.                                  *)
(***************************************************************************)
Dfs_empty(gr) == [stack |-> <<>>, discovered |-> visit_map(gr)]

\* as Dfs_move_to, without marking the start discovered
Dfs_move_to_NoMark(d, s) == [stack |-> <<s>>, discovered |-> d.discovered]

\* as Dfs_move_to, without clearing the stack
Dfs_move_to_NoClear(d, s) ==
    [stack |-> Append(d.stack, s), discovered |-> visit(d.discovered, s).map]

\* as Dfs_move_to, starting from a new visited-set
Dfs_move_to_Forget(d, s) == [stack |-> <<s>>, discovered |-> {s}]

Dfs_move_to(d, s) ==
    [stack |-> <<s>>, discovered |-> visit(d.discovered, s).map]

Dfs_new(gr, s) == Dfs_move_to(Dfs_empty(gr), s)

\* as PushUndiscovered, pushing every successor
RECURSIVE PushUndiscovered_All(_, _, _)
PushUndiscovered_All(d, succs, i) ==
    IF i > Len(succs) THEN d
    ELSE PushUndiscovered_All(
             [stack |-> Append(d.stack, succs[i]),
              discovered |-> visit(d.discovered, succs[i]).map],
             succs, i + 1)

\* the loop over the successors of the popped node: each successor not yet
\* discovered is marked and pushed (at the back of the sequence)
RECURSIVE PushUndiscovered(_, _, _)
PushUndiscovered(d, succs, i) ==
    IF i > Len(succs) THEN d
    ELSE LET v == visit(d.discovered, succs[i])
         IN  PushUndiscovered(
                 [stack |-> IF v.fresh THEN Append(d.stack, succs[i]) ELSE d.stack,
                  discovered |-> v.map],
                 succs, i + 1)

\* as Dfs_next, leaving the returned node on the stack
Dfs_next_Peek(d, v) ==
    IF d.stack = <<>> THEN [dfs |-> d, ret |-> None]
    ELSE LET node == Last(d.stack)
         IN  [dfs |-> PushUndiscovered(d, neighbors(v, node), 1), ret |-> node]

\* Dfs::next: the engine after the call and the value returned
Dfs_next(d, v) ==
    IF d.stack = <<>> THEN [dfs |-> d, ret |-> None]
    ELSE LET node == Last(d.stack)
             popped == [d EXCEPT !.stack = Front(d.stack)]
         IN  [dfs |-> PushUndiscovered(popped, neighbors(v, node), 1), ret |-> node]

Bfs_new(gr, s) ==
    [stack |-> <<s>>, discovered |-> visit(visit_map(gr), s).map]

\* as Bfs_next, popping at the back, where it pushes
Bfs_next_PopBack(b, v) ==
    IF b.stack = <<>> THEN [bfs |-> b, ret |-> None]
    ELSE LET node == Last(b.stack)
             popped == [b EXCEPT !.stack = Front(b.stack)]
         IN  [bfs |-> PushUndiscovered(popped, neighbors(v, node), 1), ret |-> node]

\* Bfs::next: pop_front, push_back
Bfs_next(b, v) ==
    IF b.stack = <<>> THEN [bfs |-> b, ret |-> None]
    ELSE LET node == Head(b.stack)
             popped == [b EXCEPT !.stack = Tail(b.stack)]
         IN  [bfs |-> PushUndiscovered(popped, neighbors(v, node), 1), ret |-> node]

(***************************************************************************)
(* The disjoint-set collaborator (UnionFind): parent links and ranks over  *)
(* the indices 0..n-1.                                                     *)
(***************************************************************************)
UnionFind_new(n) == [parent |-> [i \in 0..(n - 1) |-> i], rank |-> [i \in 0..(n - 1) |-> 0]]

RECURSIVE UnionFind_find(_, _)
UnionFind_find(uf, x) ==
    IF uf.parent[x] = x THEN x ELSE UnionFind_find(uf, uf.parent[x])

\* union returns the structure after the call and whether the two were in
\* different classes before
UnionFind_union(uf, x, y) ==
    LET xrep == UnionFind_find(uf, x)
        yrep == UnionFind_find(uf, y)
    IN  IF xrep = yrep THEN [uf |-> uf, merged |-> FALSE]
        ELSE IF uf.rank[xrep] < uf.rank[yrep]
             THEN [uf |-> [uf EXCEPT !.parent[xrep] = yrep], merged |-> TRUE]
        ELSE IF uf.rank[xrep] > uf.rank[yrep]
             THEN [uf |-> [uf EXCEPT !.parent[yrep] = xrep], merged |-> TRUE]
        ELSE [uf |-> [uf EXCEPT !.parent[yrep] = xrep, !.rank[xrep] = @ + 1],
              merged |-> TRUE]

\* the representative of every index
UnionFind_into_labeling(uf) == [i \in DOMAIN uf.parent |-> UnionFind_find(uf, i)]

(***************************************************************************)
(* connected_components and is_cyclic_undirected                           *)
(***************************************************************************)
RECURSIVE UnionEdges(_, _, _)
UnionEdges(uf, edges, i) ==
    IF i > Len(edges) THEN uf
    ELSE UnionEdges(UnionFind_union(uf, edges[i].source, edges[i].target).uf, edges, i + 1)

\* as connected_components, without the dedup of the labels
connected_components_NoDedup(gr) ==
    LET vertex_sets == UnionEdges(UnionFind_new(node_count(gr)), gr.edges, 1)
        labels == UnionFind_into_labeling(vertex_sets)
    IN  Cardinality(DOMAIN labels)

\* sort and dedup of the labels leave one entry per distinct label
connected_components(gr) ==
    LET vertex_sets == UnionEdges(UnionFind_new(node_count(gr)), gr.edges, 1)
        labels == UnionFind_into_labeling(vertex_sets)
    IN  Cardinality({labels[i] : i \in DOMAIN labels})

\* as CyclicFrom, with the test of union's result inverted
RECURSIVE CyclicFrom_Inverted(_, _, _)
CyclicFrom_Inverted(uf, edges, i) ==
    IF i > Len(edges) THEN FALSE
    ELSE LET u == UnionFind_union(uf, edges[i].source, edges[i].target)
         IN  IF u.merged THEN TRUE ELSE CyclicFrom_Inverted(u.uf, edges, i + 1)

RECURSIVE CyclicFrom(_, _, _)
CyclicFrom(uf, edges, i) ==
    IF i > Len(edges) THEN FALSE
    ELSE LET u == UnionFind_union(uf, edges[i].source, edges[i].target)
         IN  IF ~u.merged THEN TRUE ELSE CyclicFrom(u.uf, edges, i + 1)

is_cyclic_undirected(gr) == CyclicFrom(UnionFind_new(node_count(gr)), gr.edges, 1)

(***************************************************************************)
(* toposort_generic, is_cyclic_directed, toposort                          *)
(***************************************************************************)
\* as ReadyNeighbors, without the check of the incoming neighbours
ReadyNeighbors_All(v, ordered, neighs, i) == SubSeq(neighs, i, Len(neighs))

\* as ReadyNeighbors, with `any` in place of `all`
RECURSIVE ReadyNeighbors_Any(_, _, _, _)
ReadyNeighbors_Any(v, ordered, neighs, i) ==
    IF i > Len(neighs) THEN <<>>
    ELSE LET inc == neighbors_directed(v, neighs[i], Incoming)
             ready == \E k \in 1..Len(inc) : is_visited(ordered, inc[k])
         IN  (IF ready THEN <<neighs[i]>> ELSE <<>>)
                 \o ReadyNeighbors_Any(v, ordered, neighs, i + 1)

\* the nodes among neighs, in order, whose incoming neighbours are all ordered
RECURSIVE ReadyNeighbors(_, _, _, _)
ReadyNeighbors(v, ordered, neighs, i) ==
    IF i > Len(neighs) THEN <<>>
    ELSE LET inc == neighbors_directed(v, neighs[i], Incoming)
             ready == \A k \in 1..Len(inc) : is_visited(ordered, inc[k])
         IN  (IF ready THEN <<neighs[i]>> ELSE <<>>)
                 \o ReadyNeighbors(v, ordered, neighs, i + 1)

\* the while loop: st = [tovisit, ordered, visited], visited being the
\* sequence of nodes handed to the visit closure
RECURSIVE ToposortLoop(_, _)
ToposortLoop(v, st) ==
    IF st.tovisit = <<>> THEN st
    ELSE LET nix == Last(st.tovisit)
             rest == Front(st.tovisit)
         IN  IF is_visited(st.ordered, nix)
             THEN ToposortLoop(v, [st EXCEPT !.tovisit = rest])
             ELSE LET ordered == visit(st.ordered, nix).map
                      pushed == ReadyNeighbors(v, ordered,
                                    neighbors_directed(v, nix, Outgoing), 1)
                  IN  ToposortLoop(v, [tovisit |-> rest \o pushed,
                                       ordered |-> ordered,
                                       visited |-> Append(st.visited, nix)])

toposort_generic(gr) ==
    ToposortLoop(Ref(gr), [tovisit |-> externals(Ref(gr), Incoming),
                           ordered |-> visit_map(gr),
                           visited |-> <<>>]).visited

is_cyclic_directed(gr) ==
    LET n_ordered == Len(toposort_generic(gr))
    IN  n_ordered # node_count(gr)

toposort(gr) == toposort_generic(gr)

(***************************************************************************)
(* Topo: the worklist tovisit (its top is the last element) and the        *)
(* visited-set ordered                                                     *)
(***************************************************************************)
Topo_empty(gr) == [tovisit |-> <<>>, ordered |-> visit_map(gr)]

\* as Topo_new, seeding the worklist with every node
Topo_new_AllNodes(gr) ==
    [Topo_empty(gr) EXCEPT !.tovisit = @ \o node_identifiers(gr)]

Topo_new(gr) ==
    [Topo_empty(gr) EXCEPT !.tovisit = @ \o externals(Ref(gr), Incoming)]

\* as Topo_reset, keeping the ordered-set
Topo_reset_KeepOrdered(t, gr) ==
    [tovisit |-> externals(Ref(gr), Incoming), ordered |-> t.ordered]

Topo_reset(t, gr) ==
    [tovisit |-> externals(Ref(gr), Incoming), ordered |-> reset_map(gr, t.ordered)]

\* as PushReady, pushing every neighbour
RECURSIVE PushReady_All(_, _, _, _)
PushReady_All(t, v, neighs, i) ==
    IF i > Len(neighs) THEN t
    ELSE PushReady_All([t EXCEPT !.tovisit = Append(@, neighs[i])], v, neighs, i + 1)

\* the loop over the neighbours of the popped node: those whose neighbours in
\* the reversed graph are all ordered are pushed
RECURSIVE PushReady(_, _, _, _)
PushReady(t, v, neighs, i) ==
    IF i > Len(neighs) THEN t
    ELSE LET inc == neighbors(Reversed(v), neighs[i])
             ready == \A k \in 1..Len(inc) : is_visited(t.ordered, inc[k])
         IN  PushReady([t EXCEPT !.tovisit = IF ready THEN Append(@, neighs[i]) ELSE @],
                       v, neighs, i + 1)

\* as Topo_next, returning a popped entry whether it is ordered or not
Topo_next_NoSkip(t, v) ==
    IF t.tovisit = <<>> THEN [topo |-> t, ret |-> None]
    ELSE LET nix == Last(t.tovisit)
             popped == [t EXCEPT !.tovisit = Front(t.tovisit)]
             marked == [popped EXCEPT !.ordered = visit(@, nix).map]
         IN  [topo |-> PushReady(marked, v, neighbors(v, nix), 1), ret |-> nix]

\* Topo::next: the engine after the call and the value returned; a popped
\* entry that is already ordered is skipped (continue)
RECURSIVE Topo_next(_, _)
Topo_next(t, v) ==
    IF t.tovisit = <<>> THEN [topo |-> t, ret |-> None]
    ELSE LET nix == Last(t.tovisit)
             popped == [t EXCEPT !.tovisit = Front(t.tovisit)]
         IN  IF is_visited(t.ordered, nix) THEN Topo_next(popped, v)
             ELSE LET marked == [popped EXCEPT !.ordered = visit(@, nix).map]
                  IN  [topo |-> PushReady(marked, v, neighbors(v, nix), 1),
                       ret |-> nix]

(***************************************************************************)
(* scc (Kosaraju).  The state of the first phase is                        *)
(* [dfs, finished, finish_order].                                          *)
(***************************************************************************)
\* while let Some(nx) = dfs.stack.last()
RECURSIVE FinishWalk(_, _)
FinishWalk(gr, st) ==
    IF st.dfs.stack = <<>> THEN st
    ELSE LET nx == Last(st.dfs.stack)
             f == visit(st.finished, nx)
         IN  IF f.fresh
             THEN \* push again to record the finishing time, then step
                  LET again == [st.dfs EXCEPT !.stack = Append(@, nx)]
                      stepped == Dfs_next(again, Reversed(Ref(gr)))
                  IN  FinishWalk(gr, [dfs |-> stepped.dfs,
                                      finished |-> f.map,
                                      finish_order |-> st.finish_order])
             ELSE FinishWalk(gr, [dfs |-> [st.dfs EXCEPT !.stack = Front(@)],
                                  finished |-> f.map,
                                  finish_order |-> Append(st.finish_order, nx)])

\* for i in g.node_identifiers(), from the k-th on
RECURSIVE FirstPhase(_, _, _)
FirstPhase(gr, st, k) ==
    IF k > node_count(gr) THEN st
    ELSE LET i == node_identifiers(gr)[k]
         IN  IF is_visited(st.dfs.discovered, i)
             THEN FirstPhase(gr, st, k + 1)
             ELSE FirstPhase(gr,
                      FinishWalk(gr, [st EXCEPT !.dfs = Dfs_move_to(@, i)]),
                      k + 1)

\* the first phase as a whole, from an empty Dfs
first_phase(gr) ==
    FirstPhase(gr, [dfs |-> Dfs_empty(gr),
                    finished |-> visit_map(gr),
                    finish_order |-> <<>>], 1)

\* as CollectScc, with `if let` in place of `while let`: one step only
CollectScc_First(gr, d, acc) ==
    LET r == Dfs_next(d, Ref(gr))
    IN  IF r.ret = None THEN [dfs |-> r.dfs, scc |-> acc]
        ELSE [dfs |-> r.dfs, scc |-> Append(acc, r.ret)]

\* while let Some(nx) = dfs.next(g) { scc.push(nx) }
RECURSIVE CollectScc(_, _, _)
CollectScc(gr, d, acc) ==
    LET r == Dfs_next(d, Ref(gr))
    IN  IF r.ret = None THEN [dfs |-> r.dfs, scc |-> acc]
        ELSE CollectScc(gr, r.dfs, Append(acc, r.ret))

\* as SecondPhase, without the skip of discovered nodes
RECURSIVE SecondPhase_NoSkip(_, _, _, _, _)
SecondPhase_NoSkip(gr, d, fo, k, acc) ==
    IF k = 0 THEN acc
    ELSE LET c == CollectScc(gr, Dfs_move_to(d, fo[k]), <<>>)
         IN  SecondPhase_NoSkip(gr, c.dfs, fo, k - 1, Append(acc, c.scc))

\* for i in finish_order.into_iter().rev(), k being the position still to do
RECURSIVE SecondPhase(_, _, _, _, _)
SecondPhase(gr, d, fo, k, acc) ==
    IF k = 0 THEN acc
    ELSE IF is_visited(d.discovered, fo[k])
         THEN SecondPhase(gr, d, fo, k - 1, acc)
         ELSE LET c == CollectScc(gr, Dfs_move_to(d, fo[k]), <<>>)
              IN  SecondPhase(gr, c.dfs, fo, k - 1, Append(acc, c.scc))

scc(gr) ==
    LET first == first_phase(gr)
        d == [first.dfs EXCEPT !.discovered = reset_map(gr, @)]
    IN  SecondPhase(gr, d, first.finish_order, Len(first.finish_order), <<>>)

(***************************************************************************)
(* min_spanning_tree (Kruskal).  The binary heap of MinScored entries pops *)
(* an edge of least weight; which one among equal weights is not fixed by  *)
(* the ordering, so the pop order is a parameter: a sequence of edge       *)
(* indices.                                                                *)
(***************************************************************************)
\* MinScored's ordering: by score alone, the least score first out of the heap
MinScored_before(a, b) == a.weight <= b.weight

\* as HeapOrders, the heap keyed by the bare weight (greatest first)
HeapOrders_MaxFirst(gr) ==
    LET m == Len(gr.edges)
    IN  {p \in [1..m -> 1..m] :
            /\ \A i, j \in 1..m : p[i] = p[j] => i = j
            /\ \A i, j \in 1..m : i < j => gr.edges[p[i]].weight >= gr.edges[p[j]].weight}

\* the orders in which sort_edges, filled with every edge, can pop them
HeapOrders(gr) ==
    LET m == Len(gr.edges)
    IN  {p \in [1..m -> 1..m] :
            /\ \A i, j \in 1..m : p[i] = p[j] => i = j
            /\ \A i, j \in 1..m : i < j => MinScored_before(gr.edges[p[i]], gr.edges[p[j]])}

\* as KruskalLoop, adding every popped edge
RECURSIVE KruskalLoop_AddAll(_, _, _, _, _)
KruskalLoop_AddAll(gr, pops, i, subgraphs, out) ==
    IF i > Len(pops) THEN out
    ELSE LET e == gr.edges[pops[i]]
             u == UnionFind_union(subgraphs, e.source, e.target)
         IN  KruskalLoop_AddAll(gr, pops, i + 1, u.uf, [out EXCEPT !.edges = Append(@, e)])

\* as KruskalLoop, adding the edges whose endpoints were already joined
RECURSIVE KruskalLoop_Rejected(_, _, _, _, _)
KruskalLoop_Rejected(gr, pops, i, subgraphs, out) ==
    IF i > Len(pops) THEN out
    ELSE LET e == gr.edges[pops[i]]
             u == UnionFind_union(subgraphs, e.source, e.target)
         IN  KruskalLoop_Rejected(gr, pops, i + 1, u.uf,
                 IF ~u.merged THEN [out EXCEPT !.edges = Append(@, e)] ELSE out)

\* while let Some(MinScored(score, (a, b))) = sort_edges.pop()
RECURSIVE KruskalLoop(_, _, _, _, _)
KruskalLoop(gr, pops, i, subgraphs, out) ==
    IF i > Len(pops) THEN out
    ELSE LET e == gr.edges[pops[i]]
             u == UnionFind_union(subgraphs, e.source, e.target)
         IN  KruskalLoop(gr, pops, i + 1, u.uf,
                         IF u.merged THEN [out EXCEPT !.edges = Append(@, e)] ELSE out)

min_spanning_tree(gr, pops) ==
    IF node_count(gr) = 0 THEN [n |-> 0, edges |-> <<>>, ty |-> "Undirected"]
    ELSE KruskalLoop(gr, pops, 1, UnionFind_new(node_count(gr)),
                     [n |-> node_count(gr), edges |-> <<>>, ty |-> "Undirected"])

(***************************************************************************)
(* The inputs                                                              *)
(***************************************************************************)
EdgesOver(n, W) == [source : 0..(n - 1), target : 0..(n - 1), weight : W]

\* gr is a graph of edge type ty, of at most N nodes and M edges, weights in W
IsGraph(gr, ty, N, M, W) ==
    \E n \in 0..N, m \in 0..M :
        \E es \in [1..m -> EdgesOver(n, W)] : gr = [n |-> n, edges |-> es, ty |-> ty]

\* gr is a directed graph of at most MaxNodes nodes and MaxEdges edges
IsInput(gr, W) == IsGraph(gr, "Directed", MaxNodes, MaxEdges, W)

NoGraph == [n |-> 0, edges |-> <<>>, ty |-> "Undirected"]
NoEngine == [stack |-> <<>>, discovered |-> {}]
NoTopo == [tovisit |-> <<>>, ordered |-> {}]
NoMap == [kind |-> "none", map |-> {}, hist |-> {}]
NoCall == [name |-> "none"]
NoEdge == <<>>

Idle ==
    /\ op = "init"
    /\ sccs = <<>>
    /\ finish = <<>>
    /\ order = <<>>
    /\ cyclic = FALSE
    /\ count = 0
    /\ mst = NoGraph
    /\ dfs = NoEngine
    /\ bfs = NoEngine
    /\ engine = "none"
    /\ start = None
    /\ ret = None
    /\ returned = <<>>
    /\ prev = {}
    /\ moved = <<>>
    /\ afterAbsent = FALSE
    /\ topo = NoTopo
    /\ vm = NoMap
    /\ call = NoCall
    /\ lastAdded = NoEdge

auxVars == <<topo, vm, call, lastAdded>>

engineVars == <<dfs, bfs, engine, start, ret, returned, prev, moved, afterAbsent>>

resultVars == <<sccs, finish, order, cyclic, count, mst>>

(***************************************************************************)
(* The algorithms, each applied once to the caller's graph                 *)
(***************************************************************************)
Init == IsInput(g, {1}) /\ Idle

Scc ==
    /\ op = "init"
    /\ op' = "scc"
    /\ sccs' = scc(g)
    /\ finish' = first_phase(g).finish_order
    /\ UNCHANGED <<g, order, cyclic, count, mst, engineVars, auxVars>>

Toposort ==
    /\ op = "init"
    /\ op' = "toposort"
    /\ order' = toposort(g)
    /\ UNCHANGED <<g, finish, sccs, cyclic, count, mst, engineVars, auxVars>>

IsCyclicDirected ==
    /\ op = "init"
    /\ op' = "is_cyclic_directed"
    /\ cyclic' = is_cyclic_directed(g)
    /\ UNCHANGED <<g, finish, sccs, order, count, mst, engineVars, auxVars>>

ConnectedComponents ==
    /\ op = "init"
    /\ op' = "connected_components"
    /\ count' = connected_components(g)
    /\ UNCHANGED <<g, finish, sccs, order, cyclic, mst, engineVars, auxVars>>

IsCyclicUndirected ==
    /\ op = "init"
    /\ op' = "is_cyclic_undirected"
    /\ cyclic' = is_cyclic_undirected(g)
    /\ UNCHANGED <<g, finish, sccs, order, count, mst, engineVars, auxVars>>

Next ==
    \/ Scc
    \/ Toposort
    \/ IsCyclicDirected
    \/ ConnectedComponents
    \/ IsCyclicUndirected

Spec == Init /\ [][Next]_vars

(***************************************************************************)
(* min_spanning_tree applied to a weighted graph                           *)
(***************************************************************************)
InitMst == IsInput(g, 1..MaxWeight) /\ Idle

MinSpanningTree ==
    /\ op = "init"
    /\ op' = "min_spanning_tree"
    /\ \E pops \in HeapOrders(g) : mst' = min_spanning_tree(g, pops)
    /\ UNCHANGED <<g, finish, sccs, order, cyclic, count, engineVars, auxVars>>

NextMst == MinSpanningTree

SpecMst == InitMst /\ [][NextMst]_vars

(***************************************************************************)
(* scc and connected_components applied to an undirected graph             *)
(***************************************************************************)
InitUndirected == IsGraph(g, "Undirected", MaxNodes, MaxEdges, {1}) /\ Idle

NextUndirected ==
    \/ Scc
    \/ ConnectedComponents

SpecUndirected == InitUndirected /\ [][NextUndirected]_vars

(***************************************************************************)
(* Reference notions the properties are stated with                        *)
(***************************************************************************)
Nodes(gr) == 0..(gr.n - 1)

EdgePairs(edges) == {<<edges[i].source, edges[i].target>> : i \in 1..Len(edges)}

Symmetric(R) == R \cup {<<p[2], p[1]>> : p \in R}

\* the nodes reached from the set S along pairs of R, S included
RECURSIVE Closure(_, _)
Closure(R, S) ==
    LET T == S \cup {p[2] : p \in {q \in R : q[1] \in S}}
    IN  IF T = S THEN S ELSE Closure(R, T)

ReachableFrom(gr, a) == Closure(EdgePairs(gr.edges), {a})

MutuallyReachable(gr, a, b) ==
    b \in ReachableFrom(gr, a) /\ a \in ReachableFrom(gr, b)

\* a is reached from a successor of a
HasDirectedCycle(gr) ==
    \E p \in EdgePairs(gr.edges) : p[1] \in Closure(EdgePairs(gr.edges), {p[2]})

WeakComponents(gr) ==
    {Closure(Symmetric(EdgePairs(gr.edges)), {a}) : a \in Nodes(gr)}

\* some edge joins two endpoints connected by the other edges
HasUndirectedCycle(edges) ==
    \E i \in 1..Len(edges) :
        edges[i].target \in
            Closure(Symmetric(EdgePairs(Without(edges, i))), {edges[i].source})

\* the nodes at most k hops from a
RECURSIVE Within(_, _, _)
Within(gr, a, k) ==
    IF k = 0 THEN {a}
    ELSE LET S == Within(gr, a, k - 1)
         IN  S \cup {p[2] : p \in {q \in EdgePairs(gr.edges) : q[1] \in S}}

\* the least number of hops from a to b, b being reachable from a
Distance(gr, a, b) == CHOOSE k \in 0..gr.n : b \in Within(gr, a, k) /\ (k = 0 \/ b \notin Within(gr, a, k - 1))

SameGroup(groups, a, b) ==
    \E k \in 1..Len(groups) : a \in Range(groups[k]) /\ b \in Range(groups[k])

Count(s, x) == Cardinality({i \in 1..Len(s) : s[i] = x})

RECURSIVE TotalWeight(_)
TotalWeight(edges) ==
    IF edges = <<>> THEN 0 ELSE Head(edges).weight + TotalWeight(Tail(edges))

\* the edges at the indices of S, in order
RECURSIVE PickFrom(_, _, _)
PickFrom(edges, S, i) ==
    IF i > Len(edges) THEN <<>>
    ELSE (IF i \in S THEN <<edges[i]>> ELSE <<>>) \o PickFrom(edges, S, i + 1)

\* the acyclic edge subsets that connect what gr connects
SpanningForests(gr) ==
    {S \in SUBSET (1..Len(gr.edges)) :
        LET es == PickFrom(gr.edges, S, 1)
        IN  /\ ~HasUndirectedCycle(es)
            /\ WeakComponents([n |-> gr.n, edges |-> es, ty |-> gr.ty]) = WeakComponents(gr)}

(***************************************************************************)
(* A freshly constructed Dfs or Bfs stepped over an unchanged graph        *)
(***************************************************************************)
InitFresh == IsInput(g, {1}) /\ Idle

DfsNew ==
    /\ engine = "none"
    /\ \E s \in Nodes(g) :
           /\ dfs' = Dfs_new(g, s)
           /\ start' = s
    /\ engine' = "dfs"
    /\ op' = "new"
    /\ prev' = dfs.discovered
    /\ UNCHANGED <<g, resultVars, auxVars, bfs, ret, returned, moved, afterAbsent>>

\* as DfsNext, walking the graph as it was before the caller's last addition
DfsNext_Stale ==
    /\ engine = "dfs"
    /\ LET old == IF lastAdded = NoEdge THEN g ELSE Graph_remove_edge(g, edge_count(g))
           r == Dfs_next(dfs, Ref(old))
       IN  /\ dfs' = r.dfs
           /\ ret' = r.ret
           /\ returned' = IF r.ret = None THEN returned ELSE Append(returned, r.ret)
    /\ op' = "next"
    /\ prev' = dfs.discovered
    /\ afterAbsent' = (op = "next" /\ ret = None)
    /\ UNCHANGED <<g, resultVars, auxVars, bfs, engine, start, moved>>

DfsNext ==
    /\ engine = "dfs"
    /\ LET r == Dfs_next(dfs, Ref(g))
       IN  /\ dfs' = r.dfs
           /\ ret' = r.ret
           /\ returned' = IF r.ret = None THEN returned ELSE Append(returned, r.ret)
    /\ op' = "next"
    /\ prev' = dfs.discovered
    /\ afterAbsent' = (op = "next" /\ ret = None)
    /\ UNCHANGED <<g, resultVars, auxVars, bfs, engine, start, moved>>

BfsNew ==
    /\ engine = "none"
    /\ \E s \in Nodes(g) :
           /\ bfs' = Bfs_new(g, s)
           /\ start' = s
    /\ engine' = "bfs"
    /\ op' = "new"
    /\ prev' = bfs.discovered
    /\ UNCHANGED <<g, resultVars, auxVars, dfs, ret, returned, moved, afterAbsent>>

BfsNext ==
    /\ engine = "bfs"
    /\ LET r == Bfs_next(bfs, Ref(g))
       IN  /\ bfs' = r.bfs
           /\ ret' = r.ret
           /\ returned' = IF r.ret = None THEN returned ELSE Append(returned, r.ret)
    /\ op' = "next"
    /\ prev' = bfs.discovered
    /\ afterAbsent' = (op = "next" /\ ret = None)
    /\ UNCHANGED <<g, resultVars, auxVars, dfs, engine, start, moved>>

NextFresh ==
    \/ DfsNew
    \/ DfsNext
    \/ BfsNew
    \/ BfsNext

SpecFresh == InitFresh /\ [][NextFresh]_vars

(***************************************************************************)
(* The same over graphs of one more node and one more edge: the orders in  *)
(* which Dfs and Bfs return the nodes differ from four nodes on            *)
(***************************************************************************)
InitDeep == IsGraph(g, "Directed", MaxNodes + 1, MaxEdges + 1, {1}) /\ Idle

SpecDeep == InitDeep /\ [][NextFresh]_vars

(***************************************************************************)
(* A Dfs driven by any sequence of move_to and next over an unchanged      *)
(* graph; at most MaxMoves calls of move_to                                *)
(***************************************************************************)
DfsEmpty ==
    /\ engine = "none"
    /\ dfs' = Dfs_empty(g)
    /\ engine' = "dfs"
    /\ op' = "empty"
    /\ prev' = dfs.discovered
    /\ UNCHANGED <<g, resultVars, auxVars, bfs, start, ret, returned, moved, afterAbsent>>

DfsMoveTo ==
    /\ engine = "dfs"
    /\ Len(moved) < MaxMoves
    /\ \E s \in Nodes(g) :
           /\ dfs' = Dfs_move_to(dfs, s)
           /\ moved' = Append(moved, [node |-> s, seen |-> is_visited(dfs.discovered, s)])
           /\ call' = [name |-> "move_to", node |-> s, before |-> dfs.discovered,
                        dropped |-> Range(dfs.stack), at |-> Len(returned)]
    /\ op' = "move_to"
    /\ prev' = dfs.discovered
    /\ UNCHANGED <<g, resultVars, topo, vm, lastAdded, bfs, engine, start, ret,
                   returned, afterAbsent>>

NextDfs ==
    \/ DfsEmpty
    \/ DfsNew
    \/ DfsMoveTo
    \/ DfsNext

SpecDfs == InitFresh /\ [][NextDfs]_vars

(***************************************************************************)
(* A Dfs or Bfs stepped by a caller that adds and removes edges between    *)
(* the calls of next; the node set is fixed.  lastAdded is the edge the    *)
(* caller added last since the engine was built, while it is in the graph. *)
(***************************************************************************)
AddEdge ==
    /\ engine # "none"
    /\ edge_count(g) < MaxEdges
    /\ \E a, b \in Nodes(g) :
           /\ g' = Graph_add_edge(g, a, b)
           /\ lastAdded' = <<a, b>>
    /\ op' = "add_edge"
    /\ UNCHANGED <<resultVars, engineVars, topo, vm, call>>

RemoveEdge ==
    /\ engine # "none"
    /\ \E i \in 1..edge_count(g) : g' = Graph_remove_edge(g, i)
    /\ lastAdded' = NoEdge
    /\ op' = "remove_edge"
    /\ UNCHANGED <<resultVars, engineVars, topo, vm, call>>

NextMutate ==
    \/ DfsNew
    \/ DfsNext
    \/ BfsNew
    \/ BfsNext
    \/ AddEdge
    \/ RemoveEdge

SpecMutate == InitFresh /\ [][NextMutate]_vars

(***************************************************************************)
(* A Topo stepped and reset over an unchanged graph.  returned holds the   *)
(* nodes returned since construction or the last reset; call remembers the *)
(* last reset and whether it came in the middle of a traversal.            *)
(***************************************************************************)
TopoNew ==
    /\ engine = "none"
    /\ topo' = Topo_new(g)
    /\ engine' = "topo"
    /\ op' = "new"
    /\ UNCHANGED <<g, resultVars, dfs, bfs, start, ret, returned, prev, moved, afterAbsent,
                   vm, call, lastAdded>>

TopoNext ==
    /\ engine = "topo"
    /\ LET r == Topo_next(topo, Ref(g))
       IN  /\ topo' = r.topo
           /\ ret' = r.ret
           /\ returned' = IF r.ret = None THEN returned ELSE Append(returned, r.ret)
    /\ op' = "next"
    /\ prev' = topo.ordered
    /\ afterAbsent' = (op = "next" /\ ret = None)
    /\ UNCHANGED <<g, resultVars, dfs, bfs, engine, start, moved, vm, call, lastAdded>>

TopoReset ==
    /\ engine = "topo"
    /\ topo' = Topo_reset(topo, g)
    /\ call' = [name |-> "reset",
                midway |-> topo.ordered # {} /\ topo.tovisit # <<>>]
    /\ returned' = <<>>
    /\ ret' = None
    /\ op' = "reset"
    /\ prev' = topo.ordered
    /\ UNCHANGED <<g, resultVars, dfs, bfs, engine, start, moved, afterAbsent, vm, lastAdded>>

NextTopo ==
    \/ TopoNew
    \/ TopoNext
    \/ TopoReset

SpecTopo == InitFresh /\ [][NextTopo]_vars

(***************************************************************************)
(* The queries of a caller on Reversed(g) and Reversed(Reversed(g)), g     *)
(* directed or undirected; call holds the query and its answers            *)
(***************************************************************************)
InitView ==
    /\ \E ty \in {"Directed", "Undirected"} : IsGraph(g, ty, MaxNodes, MaxEdges, {1})
    /\ Idle

QueryReversed ==
    /\ \E a \in Nodes(g), d \in {Outgoing, Incoming} :
           LET v == Reversed(Ref(g))
           IN  call' = [name |-> "reversed", node |-> a, dir |-> d,
                        neighbors_directed |-> neighbors_directed(v, a, d),
                        neighbors |-> neighbors(v, a),
                        externals |-> externals(v, d)]
    /\ op' = "query"
    /\ UNCHANGED <<g, resultVars, engineVars, topo, vm, lastAdded>>

QueryReversedTwice ==
    /\ \E a \in Nodes(g), d \in {Outgoing, Incoming} :
           LET v == Reversed(Reversed(Ref(g)))
           IN  call' = [name |-> "reversed twice", node |-> a, dir |-> d,
                        neighbors_directed |-> neighbors_directed(v, a, d),
                        neighbors |-> neighbors(v, a),
                        externals |-> externals(v, d)]
    /\ op' = "query"
    /\ UNCHANGED <<g, resultVars, engineVars, topo, vm, lastAdded>>

NextView ==
    \/ QueryReversed
    \/ QueryReversedTwice

SpecView == InitView /\ [][NextView]_vars

(***************************************************************************)
(* A visited-set of the nodes of g, bitset-backed (made by visit_map) or   *)
(* hash-backed, under any sequence of visit, is_visited and reset_map.     *)
(* vm.hist holds the values visited since creation or the last reset; call *)
(* holds the last call, its answer and the set before it.  The set depends *)
(* on the nodes of g only, so g has no edges here.                         *)
(***************************************************************************)
InitVisitMap == IsGraph(g, "Directed", MaxNodes, 0, {1}) /\ Idle

VisitMapNew ==
    /\ vm.kind = "none"
    /\ \/ vm' = [kind |-> "bitset", map |-> visit_map(g), hist |-> {}]
       \/ vm' = [kind |-> "hash", map |-> {}, hist |-> {}]
    /\ op' = "new"
    /\ UNCHANGED <<g, resultVars, engineVars, topo, call, lastAdded>>

Visit ==
    /\ vm.kind # "none"
    /\ \E x \in Nodes(g) :
           LET r == IF vm.kind = "bitset" THEN visit(vm.map, x)
                    ELSE HashSet_visit(vm.map, x)
           IN  /\ vm' = [vm EXCEPT !.map = r.map, !.hist = @ \cup {x}]
               /\ call' = [name |-> "visit", x |-> x, result |-> r.fresh,
                            before |-> vm.map]
    /\ op' = "visit"
    /\ UNCHANGED <<g, resultVars, engineVars, topo, lastAdded>>

IsVisited ==
    /\ vm.kind # "none"
    /\ \E x \in Nodes(g) :
           call' = [name |-> "is_visited", x |-> x,
                    result |-> IF vm.kind = "bitset" THEN is_visited(vm.map, x)
                               ELSE HashSet_is_visited(vm.map, x),
                    before |-> vm.map]
    /\ op' = "is_visited"
    /\ UNCHANGED <<g, resultVars, engineVars, topo, vm, lastAdded>>

ResetMap ==
    /\ vm.kind = "bitset"
    /\ vm' = [vm EXCEPT !.map = reset_map(g, @), !.hist = {}]
    /\ call' = [name |-> "reset_map", x |-> None, result |-> FALSE, before |-> vm.map]
    /\ op' = "reset_map"
    /\ UNCHANGED <<g, resultVars, engineVars, topo, lastAdded>>

NextVisitMap ==
    \/ VisitMapNew
    \/ Visit
    \/ IsVisited
    \/ ResetMap

SpecVisitMap == InitVisitMap /\ [][NextVisitMap]_vars

(***************************************************************************)
(* A Dfs, Bfs or Topo built once and stepped by a caller that keeps        *)
(* calling next, over an unchanged graph                                   *)
(***************************************************************************)
NextRun ==
    \/ DfsNew
    \/ DfsNext
    \/ BfsNew
    \/ BfsNext
    \/ TopoNew
    \/ TopoNext

SpecRun ==
    /\ InitFresh
    /\ [][NextRun]_vars
    /\ WF_vars(DfsNext)
    /\ WF_vars(BfsNext)
    /\ WF_vars(TopoNext)

(***************************************************************************)
(* Every operation of Dfs and Bfs, with a caller that adds and removes     *)
(* edges between the calls; one call of move_to less than in SpecDfs       *)
(***************************************************************************)
NextAll ==
    \/ DfsEmpty
    \/ DfsNew
    \/ DfsMoveTo /\ Len(moved) < MaxMoves - 1
    \/ DfsNext
    \/ BfsNew
    \/ BfsNext
    \/ AddEdge
    \/ RemoveEdge

SpecAll == InitFresh /\ [][NextAll]_vars

(***************************************************************************)
(* Properties                                                              *)
(***************************************************************************)
\* C1: scc returns exactly the strongly connected components: two nodes are
\* in the same group iff each is reachable from the other.
C1_SccExact ==
    op = "scc" =>
        \A a, b \in Nodes(g) : SameGroup(sccs, a, b) <=> MutuallyReachable(g, a, b)

\* C2: for an acyclic graph toposort returns every node exactly once, and
\* the source of every edge before its target.
C2_ToposortOrder ==
    (op = "toposort" /\ ~HasDirectedCycle(g)) =>
        /\ Range(order) = Nodes(g)
        /\ NoDup(order)
        /\ \A p \in EdgePairs(g.edges) :
               \E i, j \in 1..Len(order) : i < j /\ order[i] = p[1] /\ order[j] = p[2]

C2_Witness ==
    /\ op = "toposort"
    /\ ~HasDirectedCycle(g)
    /\ g.n = 3
    /\ Cardinality(EdgePairs(g.edges)) = 3
    /\ Len(order) = 3

\* C3: is_cyclic_directed is true iff the graph has a directed cycle, and
\* toposort returns as many entries as there are nodes iff it has none
\* (fewer otherwise).
C3_CyclicDirected ==
    /\ op = "is_cyclic_directed" => (cyclic <=> HasDirectedCycle(g))
    /\ op = "toposort" =>
           /\ Len(order) <= node_count(g)
           /\ (Len(order) = node_count(g)) <=> ~HasDirectedCycle(g)

C3_Witness ==
    /\ op = "is_cyclic_directed"
    /\ cyclic
    /\ g.n = 3
    /\ \A e \in Range(g.edges) : e.source # e.target

\* C8: the groups of scc partition the node set: every node is in exactly
\* one group, no group is empty, no node is twice in a group.
C8_SccPartition ==
    op = "scc" =>
        /\ \A a \in Nodes(g) :
               Cardinality({k \in 1..Len(sccs) : a \in Range(sccs[k])}) = 1
        /\ \A k \in 1..Len(sccs) :
               sccs[k] # <<>> /\ NoDup(sccs[k]) /\ Range(sccs[k]) \subseteq Nodes(g)

C8_Witness ==
    /\ op = "scc"
    /\ g.n = 3
    /\ Len(sccs) = 2
    /\ Len(g.edges) = 3

\* C9: connected_components is the number of weakly connected components:
\* the node count without edges, 1 for a connected non-empty graph.
C9_ComponentCount ==
    op = "connected_components" =>
        /\ count = Cardinality(WeakComponents(g))
        /\ g.edges = <<>> => count = node_count(g)
        /\ (g.n > 0 /\ \A a \in Nodes(g) :
                Closure(Symmetric(EdgePairs(g.edges)), {a}) = Nodes(g)) => count = 1

C9_Witness ==
    /\ op = "connected_components"
    /\ g.n = 3
    /\ count = 2
    /\ Len(g.edges) = 2

\* C10: is_cyclic_undirected is true iff some edge joins two endpoints
\* already connected by the other edges, direction ignored.
C10_CyclicUndirected ==
    op = "is_cyclic_undirected" => (cyclic <=> HasUndirectedCycle(g.edges))

C10_Witness ==
    /\ op = "is_cyclic_undirected"
    /\ cyclic
    /\ Len(g.edges) = 3
    /\ Cardinality(Symmetric(EdgePairs(g.edges))) = 6

\* C4: min_spanning_tree keeps the node count and returns V - C edges, C the
\* number of weakly connected components; fewer edges than nodes unless the
\* graph is empty.
C4_MstEdgeCount ==
    op = "min_spanning_tree" =>
        /\ node_count(mst) = node_count(g)
        /\ edge_count(mst) = node_count(g) - Cardinality(WeakComponents(g))
        /\ node_count(g) > 0 => edge_count(mst) < node_count(g)

C4_Witness ==
    /\ op = "min_spanning_tree"
    /\ g.n = 3
    /\ Len(g.edges) = 3
    /\ Cardinality(Symmetric(EdgePairs(g.edges))) = 6
    /\ edge_count(mst) = 2

\* C5: the total weight of min_spanning_tree's edges is the least total
\* weight of a spanning forest of the graph.
C5_MstMinWeight ==
    op = "min_spanning_tree" =>
        /\ \A S \in SpanningForests(g) :
               TotalWeight(mst.edges) <= TotalWeight(PickFrom(g.edges, S, 1))
        /\ \E S \in SpanningForests(g) :
               TotalWeight(mst.edges) = TotalWeight(PickFrom(g.edges, S, 1))

C5_Witness ==
    /\ op = "min_spanning_tree"
    /\ g.n = 3
    /\ Len(g.edges) = 3
    /\ Cardinality(Symmetric(EdgePairs(g.edges))) = 6
    /\ \E i, j \in 1..3 : g.edges[i].weight # g.edges[j].weight
    /\ TotalWeight(mst.edges) = 2

\* the visited-set of the engine the caller holds
Discovered == IF engine = "bfs" THEN bfs.discovered ELSE dfs.discovered

\* C6: next on a fresh Dfs or Bfs over an unchanged graph never repeats a
\* node, returns only nodes reachable from the start and, once it returns
\* absent, has returned all of them; the visited-set only grows.
C6_FreshTraversal ==
    engine # "none" =>
        /\ NoDup(returned)
        /\ Range(returned) \subseteq ReachableFrom(g, start)
        /\ (op = "next" /\ ret = None) => Range(returned) = ReachableFrom(g, start)
        /\ prev \subseteq Discovered

C6_Witness ==
    /\ engine = "dfs"
    /\ op = "next"
    /\ ret = None
    /\ Len(returned) = 3
    /\ HasDirectedCycle(g)
    /\ ReachableFrom(g, start) = Nodes(g)

\* C7 as stated: over any sequence of move_to and next, no node is returned
\* by next more than once.
C7_NeverReemitted == engine = "dfs" => NoDup(returned)

\* C7 as amended: a node is returned at most once, plus once for every
\* move_to given that node while it was already visited.
C7_ReemittedOnlyByMoveTo ==
    engine = "dfs" =>
        \A x \in Nodes(g) :
            Count(returned, x)
                <= 1 + Cardinality({i \in 1..Len(moved) : moved[i].node = x /\ moved[i].seen})

C7_Witness ==
    /\ engine = "dfs"
    /\ Len(moved) = 2
    /\ \E x, y \in Nodes(g) :
           /\ Count(returned, x) = 2
           /\ Count(returned, y) = 1
           /\ Cardinality({i \in 1..Len(moved) : moved[i].node = y}) = 0

\* C11: the result of min_spanning_tree is a spanning forest of the input:
\* its edges are edges of the input, it has no undirected cycle, and it
\* connects exactly the nodes the input connects.
C11_MstSpanningForest ==
    op = "min_spanning_tree" =>
        /\ \A e \in Range(mst.edges) : Count(mst.edges, e) <= Count(g.edges, e)
        /\ ~is_cyclic_undirected(mst)
        /\ ~HasUndirectedCycle(mst.edges)
        /\ connected_components(mst) = connected_components(g)
        /\ WeakComponents(mst) = WeakComponents(g)

C11_Witness ==
    /\ op = "min_spanning_tree"
    /\ g.n = 3
    /\ Len(g.edges) = 3
    /\ Cardinality(Symmetric(EdgePairs(g.edges))) = 4
    /\ \A e \in Range(g.edges) : e.source # e.target
    /\ edge_count(mst) = 2
    /\ connected_components(mst) = 1

\* C12: on an undirected graph the groups of scc are the connected
\* components, and there are connected_components of them.
C12_UndirectedScc ==
    (op = "scc" /\ ~is_directed(g)) =>
        /\ {Range(sccs[k]) : k \in 1..Len(sccs)} = WeakComponents(g)
        /\ Len(sccs) = Cardinality(WeakComponents(g))
        /\ Len(sccs) = connected_components(g)

C12_Witness ==
    /\ op = "scc"
    /\ ~is_directed(g)
    /\ g.n = 3
    /\ Len(g.edges) = 3
    /\ Len(sccs) = 1
    /\ \A e \in Range(g.edges) : e.source # e.target

\* C13: the nodes returned by a fresh Bfs over an unchanged graph come in
\* non-decreasing order of their hop distance from the start, the start
\* first.
C13_BreadthOrder ==
    engine = "bfs" =>
        /\ returned # <<>> => returned[1] = start
        /\ \A i, j \in 1..Len(returned) :
               i < j => Distance(g, start, returned[i]) <= Distance(g, start, returned[j])

C13_Witness ==
    /\ engine = "bfs"
    /\ op = "next"
    /\ ret = None
    /\ Len(returned) = 4
    /\ Distance(g, start, returned[2]) = 1
    /\ Distance(g, start, returned[3]) = 1
    /\ Distance(g, start, returned[4]) = 2
    /\ Len(g.edges) = 4

\* the frontier of the engine in use
Frontier == IF engine = "bfs" THEN bfs.stack ELSE dfs.stack

\* C14: next walks the neighbours in the graph passed to the call: every
\* neighbour, in the graph of the call, of the node the call returns that was
\* not visited before the call is visited and pending after it, an edge added
\* since construction included; and every visited node is pending or was
\* returned, so that a pending node has been returned when next returns absent
C14_FreshNeighbours ==
    /\ op = "next" /\ ret # None =>
           \A v \in Range(neighbors(Ref(g), ret)) :
               v \notin prev => v \in Discovered /\ v \in Range(Frontier)
    /\ engine # "none" => Discovered = Range(Frontier) \cup Range(returned)
    /\ op = "next" /\ ret = None => Frontier = <<>>

\* the call popped u after the caller added the only edge u->v, v unvisited
C14_Witness ==
    /\ op = "next"
    /\ lastAdded # NoEdge
    /\ lastAdded[1] = ret
    /\ lastAdded[2] \notin prev
    /\ lastAdded[2] \in Range(Frontier)
    /\ Len(returned) >= 2
    /\ Count([i \in 1..Len(g.edges) |-> <<g.edges[i].source, g.edges[i].target>>], lastAdded) = 1

\* the nodes returned by next until it returns absent
RECURSIVE TopoRun(_, _)
TopoRun(t, v) ==
    LET r == Topo_next(t, v)
    IN  IF r.ret = None THEN <<>> ELSE <<r.ret>> \o TopoRun(r.topo, v)

IsPrefix(s, t) == Len(s) <= Len(t) /\ s = SubSeq(t, 1, Len(s))

\* C15: reset leaves the ordered-set empty and the worklist holding exactly
\* the nodes without incoming edges, whatever the engine was before; the
\* nodes returned after a reset are those a fresh Topo::new returns, in order
C15_ResetAsNew ==
    /\ op = "reset" =>
           /\ topo.ordered = {}
           /\ topo.tovisit = SelectSeq(node_identifiers(g),
                  LAMBDA a : \A p \in EdgePairs(g.edges) : p[2] # a)
           /\ topo = Topo_new(g)
    /\ call.name = "reset" =>
           /\ IsPrefix(returned, TopoRun(Topo_new(g), Ref(g)))
           /\ op = "next" /\ ret = None => returned = TopoRun(Topo_new(g), Ref(g))

\* a reset in the middle of a traversal, followed by a whole traversal
C15_Witness ==
    /\ call.name = "reset"
    /\ call.midway
    /\ op = "next"
    /\ ret = None
    /\ Len(returned) = 3

\* the far ends of the edges of a directed graph at a in direction d, the
\* edge added last first
EndsAt(gr, a, d) ==
    LET m == Len(gr.edges)
        at == SelectSeq([i \in 1..m |-> gr.edges[m + 1 - i]],
                        LAMBDA e : IF d = Outgoing THEN e.source = a ELSE e.target = a)
    IN  [k \in 1..Len(at) |-> IF d = Outgoing THEN at[k].target ELSE at[k].source]

\* C16: Reversed answers every query as the graph under it does with the
\* direction flipped: neighbors_directed(n, d) as g's in direction
\* opposite(d), neighbors(n) as g's incoming neighbours, externals(d) as g's
\* externals(opposite(d)); Reversed(Reversed(g)) answers as g
C16_ReversedDelegates ==
    /\ call.name = "reversed" =>
           /\ call.neighbors_directed
                  = Graph_neighbors_directed(g, call.node, opposite(call.dir))
           /\ call.neighbors = Graph_neighbors_directed(g, call.node, Incoming)
           /\ call.externals = Graph_externals(g, opposite(call.dir))
           /\ is_directed(g) =>
                  /\ call.neighbors_directed = EndsAt(g, call.node, opposite(call.dir))
                  /\ call.neighbors = EndsAt(g, call.node, Incoming)
    /\ call.name = "reversed twice" =>
           /\ call.neighbors_directed = Graph_neighbors_directed(g, call.node, call.dir)
           /\ call.neighbors = Graph_neighbors_directed(g, call.node, Outgoing)
           /\ call.externals = Graph_externals(g, call.dir)
           /\ is_directed(g) =>
                  /\ call.neighbors_directed = EndsAt(g, call.node, call.dir)
                  /\ call.neighbors = EndsAt(g, call.node, Outgoing)

\* a query on the reversed view of a directed graph where the two directions
\* give different answers
C16_Witness ==
    /\ call.name = "reversed"
    /\ is_directed(g)
    /\ call.neighbors_directed # Graph_neighbors_directed(g, call.node, call.dir)
    /\ Len(call.neighbors_directed) = 2
    /\ call.externals # Graph_externals(g, call.dir)

\* C17: visit(x) returns true exactly when x was not present and leaves x
\* present, adding nothing else; on a value already visited it returns false
\* and leaves the set as it was; is_visited(x) leaves the set as it was and
\* is true iff x was visited since creation or the last reset; alike for the
\* bitset-backed and the hash-backed set
C17_VisitMap ==
    /\ call.name = "visit" =>
           /\ call.result = (call.x \notin call.before)
           /\ call.x \in vm.map
           /\ vm.map = call.before \cup {call.x}
           /\ call.x \in call.before => ~call.result /\ vm.map = call.before
    /\ call.name = "is_visited" =>
           /\ vm.map = call.before
           /\ call.result = (call.x \in vm.hist)
    /\ vm.kind # "none" => vm.map = vm.hist

\* a second visit of a value in a bitset-backed set that holds two values
C17_Witness ==
    /\ call.name = "visit"
    /\ call.x \in call.before
    /\ ~call.result
    /\ Cardinality(vm.map) = 2
    /\ vm.kind = "bitset"

\* C18: over an unchanged graph a Dfs, Bfs or Topo whose next is called again
\* and again returns at most |V| nodes and then absent; a next called after
\* absent was returned returns absent and leaves frontier and visited-set as
\* they were
C18_Terminates ==
    /\ [](Len(returned) <= node_count(g))
    /\ (engine # "none") ~> (op = "next" /\ ret = None)
    /\ [][(op = "next" /\ ret = None) =>
              /\ ret' = None
              /\ returned' = returned
              /\ dfs' = dfs /\ bfs' = bfs /\ topo' = topo]_vars

\* next was called once more after a Topo had returned every node and absent
C18_Witness ==
    /\ afterAbsent
    /\ engine = "topo"
    /\ ret = None
    /\ Len(returned) = node_count(g)
    /\ node_count(g) = 3
    /\ Len(g.edges) = 3

\* the place of x in a sequence that holds it once
IndexOf(s, x) == CHOOSE i \in 1..Len(s) : s[i] = x

\* C19: the finish order of the first phase of scc holds every node exactly
\* once and is a depth-first postorder of the reversed graph: for every edge
\* y->x of the graph (x->y of the reversed graph) y comes before x in it,
\* unless x is reachable from y in the reversed graph (y from x in the graph)
C19_FinishPostorder ==
    op = "scc" =>
        /\ \A a \in Nodes(g) : Count(finish, a) = 1
        /\ Len(finish) = node_count(g)
        /\ \A p \in EdgePairs(g.edges) :
               LET y == p[1]
                   x == p[2]
               IN  \/ y \in ReachableFrom(g, x)
                   \/ IndexOf(finish, y) < IndexOf(finish, x)

\* the node returned last, among the first k, that has a neighbour not among
\* the first k returned (None if there is none)
RECURSIVE DeepestOpen(_, _)
DeepestOpen(k, j) ==
    IF j = 0 THEN None
    ELSE IF \E v \in Range(neighbors(Ref(g), returned[j])) :
                v \notin Range(SubSeq(returned, 1, k))
         THEN returned[j]
         ELSE DeepestOpen(k, j - 1)

\* C20: the nodes returned by next on a Dfs built by Dfs::new come in a
\* depth-first preorder: each node returned after the start is a neighbour of
\* the node returned last before it among those that still had a neighbour
\* not yet returned
C20_DepthFirstOrder ==
    engine = "dfs" =>
        \A k \in 1..(Len(returned) - 1) :
            LET u == DeepestOpen(k, k)
            IN  u # None /\ returned[k + 1] \in Range(neighbors(Ref(g), u))

\* the number of edges a->b of gr
Parallel(gr, a, b) ==
    Cardinality({i \in 1..Len(gr.edges) :
                    gr.edges[i].source = a /\ gr.edges[i].target = b})

\* C21: between resets Topo::next returns no node twice, parallel edges
\* (which leave a node pending once per edge) included; nor does toposort
C21_TopoNoRepeat ==
    /\ engine = "topo" => NoDup(returned)
    /\ NoDup(toposort(g))

\* v was pending twice, for the two edges u->v; the call after the one that
\* returned v popped the second entry, skipped it and returned the node
\* pending below it
C21_Witness ==
    /\ engine = "topo"
    /\ op = "next"
    /\ Len(returned) = 3
    /\ ret = returned[3]
    /\ Parallel(g, returned[1], returned[2]) = 2
    /\ ~HasEdgeAt(g, ret, Incoming)

\* C22: the nodes returned by next on Topo::new(g) until it returns absent
\* are the nodes of toposort(g), in the same order, and is_cyclic_directed
\* compares their number with the node count
C22_TopoAgreesWithToposort ==
    engine = "topo" =>
        /\ IsPrefix(returned, toposort(g))
        /\ op = "next" /\ ret = None =>
               /\ returned = toposort(g)
               /\ is_cyclic_directed(g) <=> Len(returned) # node_count(g)

\* a whole run over a cyclic graph that returned some of the nodes
C22_Witness ==
    /\ engine = "topo"
    /\ op = "next"
    /\ ret = None
    /\ Len(returned) = 2
    /\ node_count(g) = 3
    /\ is_cyclic_directed(g)
    /\ call.name = "none"

\* the nodes on a cycle of gr
OnCycle(gr) ==
    {a \in Nodes(gr) :
        \E p \in EdgePairs(gr.edges) : p[1] = a /\ a \in ReachableFrom(gr, p[2])}

\* the nodes that are neither on a cycle nor reachable from a node on one
CycleFree(gr) ==
    {a \in Nodes(gr) : \A c \in OnCycle(gr) : a \notin ReachableFrom(gr, c)}

\* C23: Topo::next and toposort return exactly the nodes that are neither on
\* a cycle nor reachable from one, each after all of its incoming neighbours
C23_TopoCycleFree ==
    /\ engine = "topo" =>
           /\ \A k \in 1..Len(returned) :
                  \A p \in EdgePairs(g.edges) :
                      p[2] = returned[k] => p[1] \in Range(SubSeq(returned, 1, k - 1))
           /\ Range(returned) \subseteq CycleFree(g)
           /\ op = "next" /\ ret = None => Range(returned) = CycleFree(g)
    /\ Range(toposort(g)) = CycleFree(g)

\* a whole run over a graph where one node is on a cycle, one is reachable
\* from it and one is neither
C23_Witness ==
    /\ engine = "topo"
    /\ op = "next"
    /\ ret = None
    /\ Len(returned) = 1
    /\ Cardinality(OnCycle(g)) = 1
    /\ node_count(g) = 3
    /\ \E a \in Nodes(g) \ OnCycle(g) : a \notin CycleFree(g)
    /\ HasEdgeAt(g, returned[1], Outgoing)

\* the nodes returned since the last move_to
SinceMove == SubSeq(returned, call.at + 1, Len(returned))

\* the argument of the last move_to and the nodes reached from it along
\* edges into nodes that were unvisited when it was called
FreshReach ==
    Closure({p \in EdgePairs(g.edges) : p[2] \notin call.before}, {call.node})

\* C24: after move_to(s) the first next returns s; next returns, each once,
\* only s and the nodes reachable from s through nodes unvisited at the time
\* of move_to, and all of them once it returns absent; the nodes that were
\* pending when move_to was called are not returned, s apart
C24_MoveToRestarts ==
    call.name = "move_to" =>
        /\ op = "next" => SinceMove # <<>>
        /\ SinceMove # <<>> => SinceMove[1] = call.node
        /\ NoDup(SinceMove)
        /\ Range(SinceMove) \subseteq FreshReach
        /\ op = "next" /\ ret = None => Range(SinceMove) = FreshReach
        /\ \A q \in call.dropped \ {call.node} : q \notin Range(SinceMove)

\* a move_to that dropped a pending node, to a node from which a visited
\* node is reachable, followed by a whole run that returned two nodes
C24_Witness ==
    /\ call.name = "move_to"
    /\ call.dropped \ {call.node} # {}
    /\ op = "next"
    /\ ret = None
    /\ Len(SinceMove) = 2
    /\ ReachableFrom(g, call.node) \ FreshReach # {}

\* C25: move_to(start) leaves every visited node visited, adds start and no
\* other node to the visited-set, leaves a stack holding start alone, whatever
\* it held before, and leaves the graph as it was
C25_MoveToFrame ==
    [][op' = "move_to" =>
          /\ dfs'.discovered = dfs.discovered \cup {call'.node}
          /\ dfs'.stack = <<call'.node>>
          /\ g' = g]_vars

\* a move_to on an engine with two nodes visited and one of them pending,
\* to a third node
C25_Witness ==
    /\ op = "move_to"
    /\ Cardinality(call.before) = 2
    /\ call.dropped # {}
    /\ call.node \notin call.before
    /\ dfs.discovered = Nodes(g)

\* C26: whatever edges the caller adds and removes between the calls of next
\* on a Dfs or Bfs, without move_to, no node is returned twice, every
\* returned node is marked visited, and at most |V| nodes are returned
C26_MutationSafe ==
    engine \in {"dfs", "bfs"} =>
        /\ NoDup(returned)
        /\ Range(returned) \subseteq Discovered
        /\ Len(returned) <= node_count(g)

\* every node was returned and next returned absent, although an edge was
\* removed (not every node is reachable from the start any more) and an edge
\* was added after that
C26_Witness ==
    /\ engine \in {"dfs", "bfs"}
    /\ op = "next"
    /\ ret = None
    /\ Len(returned) = node_count(g)
    /\ node_count(g) = 3
    /\ ReachableFrom(g, start) # Nodes(g)
    /\ lastAdded # NoEdge

\* C27: in every state of a Dfs or Bfs, whatever was called on it and
\* whatever the caller did to the edges, every node pending in the frontier
\* is marked in the visited-set and no node is pending twice
C27_FrontierVisitedOnce ==
    /\ Range(dfs.stack) \subseteq dfs.discovered
    /\ NoDup(dfs.stack)
    /\ Range(bfs.stack) \subseteq bfs.discovered
    /\ NoDup(bfs.stack)

\* after a move_to and an edge added by the caller, next popped a node with
\* two edges to the same neighbour and left two nodes pending
C27_Witness ==
    /\ engine = "dfs"
    /\ op = "next"
    /\ Len(moved) = 1
    /\ lastAdded # NoEdge
    /\ Len(dfs.stack) = 2
    /\ \E x \in Range(dfs.stack) : Parallel(g, ret, x) = 2


====
